---- MODULE Spec2Model ----
(***************************************************************************)
(* A model of the Vinted tracker backend:                                  *)
(*   backend/vinted_fetcher.py  fetch_vinted_items, generate_mock_items,   *)
(*                              parse_item                                 *)
(*   backend/vinted_routes.py   the /api/vinted endpoints over the three   *)
(*                              collections vinted_queries, vinted_items   *)
(*                              and vinted_stats_daily                     *)
(*                                                                         *)
(* Python values are tagged records: [t |-> "none"], [t |-> "bool", b],    *)
(* [t |-> "num", n], [t |-> "str", s] (s a sequence of characters) and     *)
(* [t |-> "dict", d] (d a record; a key that is absent is not in           *)
(* DOMAIN d).  Prices are counted in cents, so that 15.5 is 1550.          *)
(***************************************************************************)
EXTENDS Integers, Sequences, FiniteSets, TLC

VARIABLES
    db,                 \* the module-level handle: "None" until set_db
    vinted_queries,     \* collection: sequence of SavedQuery documents
    vinted_items,       \* collection: sequence of StoredItem documents
    vinted_stats_daily, \* collection: sequence of DailyStat documents
    stats_uuid,         \* uuid4 tokens drawn for DailyStat documents
    hour,               \* wall clock: time.time() // 3600
    day,                \* wall clock: the UTC calendar day
    req,                \* the last call: its arguments, what the outside
                        \* world answered during it, and whether it
                        \* repeats the call before it
    resp                \* what that call returned or raised

vars == <<db, vinted_queries, vinted_items, vinted_stats_daily, stats_uuid,
          hour, day, req, resp>>

(***************************************************************************)
(* Python values                                                           *)
(***************************************************************************)
PyNone == [t |-> "none"]
PyBool(b) == [t |-> "bool", b |-> b]
PyNum(n) == [t |-> "num", n |-> n]
PyStr(s) == [t |-> "str", s |-> s]
PyDict(d) == [t |-> "dict", d |-> d]
EmptyDict == PyDict(<<>>)

\* bool(v): what `if v`, `v or w` and `not v` test
Truthy(v) ==
    CASE v.t = "none" -> FALSE
      [] v.t = "bool" -> v.b
      [] v.t = "num" -> v.n # 0
      [] v.t = "str" -> v.s # <<>>
      [] v.t = "dict" -> DOMAIN v.d # {}

\* a or b
PyOr(a, b) == IF Truthy(a) THEN a ELSE b

\* d.get(k, dflt) on the record under a dict
PyGet(d, k, dflt) == IF k \in DOMAIN d THEN d[k] ELSE dflt

Digits == <<"0", "1", "2", "3", "4", "5", "6", "7", "8", "9">>
IsDigit(c) == \E i \in 1..10 : Digits[i] = c
DigitVal(c) == (CHOOSE i \in 1..10 : Digits[i] = c) - 1

\* the decimal digits of n >= 0, as str(n) prints them
RECURSIVE NatToStr(_)
NatToStr(n) ==
    IF n < 10 THEN <<Digits[n + 1]>>
    ELSE NatToStr(n \div 10) \o <<Digits[(n % 10) + 1]>>

\* str(v) for the values an id or a photo field takes
ToStr(v) ==
    CASE v.t = "str" -> v.s
      [] v.t = "none" -> <<"N", "o", "n", "e">>
      [] v.t = "num" ->
            IF v.n < 0 THEN <<"-">> \o NatToStr(-v.n) ELSE NatToStr(v.n)
      [] v.t = "bool" ->
            IF v.b THEN <<"T", "r", "u", "e">>
            ELSE <<"F", "a", "l", "s", "e">>
      [] v.t = "dict" -> <<"{", "}">>

\* s.replace(a, b) for single characters
Replace(s, a, b) == [i \in 1..Len(s) |-> IF s[i] = a THEN b ELSE s[i]]

\* the value of a run of digits
RECURSIVE DigitsVal(_)
DigitsVal(s) ==
    IF s = <<>> THEN 0
    ELSE 10 * DigitsVal(SubSeq(s, 1, Len(s) - 1)) + DigitVal(s[Len(s)])

Count(s, c) == Cardinality({i \in 1..Len(s) : s[i] = c})

\* float() of a text made of digits and dots only: it needs a digit and at
\* most one dot.  The value is in cents; the texts of the model carry at
\* most two decimals.
IsDecimal(s) ==
    /\ s # <<>>
    /\ \A i \in 1..Len(s) : IsDigit(s[i]) \/ s[i] = "."
    /\ \E i \in 1..Len(s) : IsDigit(s[i])
    /\ Count(s, ".") <= 1

DecimalCents(s) ==
    LET dot == IF Count(s, ".") = 0 THEN Len(s) + 1
               ELSE CHOOSE i \in 1..Len(s) : s[i] = "."
        whole == SubSeq(s, 1, dot - 1)
        frac == SubSeq(s, dot + 1, Len(s))
        cents == CASE Len(frac) = 0 -> 0
                   [] Len(frac) = 1 -> 10 * DigitVal(frac[1])
                   [] OTHER -> 10 * DigitVal(frac[1]) + DigitVal(frac[2])
    IN  100 * DigitsVal(whole) + cents

\* s.strip() of blanks
RECURSIVE Strip(_)
Strip(s) ==
    IF s = <<>> THEN s
    ELSE IF s[1] = " " THEN Strip(Tail(s))
    ELSE IF s[Len(s)] = " " THEN Strip(SubSeq(s, 1, Len(s) - 1))
    ELSE s

Raised(e) == [raised |-> e]
Returned(v) == [raised |-> "none", value |-> v]

\* float() of a stripped text: an optional sign, then a decimal
SignedDecimal(s) ==
    IF s # <<>> /\ s[1] = "-"
    THEN (IF IsDecimal(Tail(s)) THEN Returned(-DecimalCents(Tail(s)))
          ELSE Raised("ValueError"))
    ELSE IF s # <<>> /\ s[1] = "+"
    THEN (IF IsDecimal(Tail(s)) THEN Returned(DecimalCents(Tail(s)))
          ELSE Raised("ValueError"))
    ELSE IF IsDecimal(s) THEN Returned(DecimalCents(s))
    ELSE Raised("ValueError")

\* float(v): a number is itself; a text is stripped, may carry a sign, and
\* must then be a decimal; None and a dict raise TypeError.
PyFloat(v) ==
    CASE v.t = "num" -> Returned(v.n)
      [] v.t = "bool" -> Returned(IF v.b THEN 100 ELSE 0)
      [] v.t = "str" -> SignedDecimal(Strip(v.s))
      [] OTHER -> Raised("TypeError")

\* re.search(r'([\d,\.]+)', s): the first, longest run of digits, commas and
\* dots; <<>> when there is none
InPriceClass(c) == IsDigit(c) \/ c = "," \/ c = "."

RECURSIVE TakePriceRun(_)
TakePriceRun(s) ==
    IF s = <<>> \/ ~InPriceClass(s[1]) THEN <<>>
    ELSE <<s[1]>> \o TakePriceRun(Tail(s))

RECURSIVE PriceMatch(_)
PriceMatch(s) ==
    IF s = <<>> THEN <<>>
    ELSE IF InPriceClass(s[1]) THEN TakePriceRun(s)
    ELSE PriceMatch(Tail(s))

(***************************************************************************)
(* parse_item                                                              *)
(***************************************************************************)
EUR == PyStr(<<"E", "U", "R">>)
EmptyStr == PyStr(<<>>)
ItemUrlBase == "https://www.vinted.fr/items/"

\* the price found and its currency, or the exception float() raised
Priced(f, currency) ==
    IF f.raised # "none" THEN f
    ELSE Returned([price |-> f.value, currency |-> currency])

\* lines 240-241: the first run of digits and dots, if any, through float()
MatchedPrice(m) == IF m # <<>> THEN PyFloat(PyStr(m)) ELSE Returned(0)

\* lines 235-245, by the type of the price field
PriceOf(price_data) ==
    CASE price_data.t = "dict" ->
            Priced(PyFloat(PyGet(price_data.d, "amount", PyNum(0))),
                   PyGet(price_data.d, "currency_code", EUR))
      [] price_data.t = "str" ->
            Priced(MatchedPrice(PriceMatch(Replace(price_data.s, ",", "."))),
                   EUR)
      [] OTHER ->
            Priced(IF Truthy(price_data) THEN PyFloat(price_data)
                   ELSE Returned(0),
                   EUR)

\* lines 234-245
ParsePrice(raw) == PriceOf(PyGet(raw, "price", PyNum(0)))

\* line 248
ResolveId(raw) ==
    PyOr(PyOr(PyGet(raw, "id", PyNone), PyGet(raw, "item_id", PyNone)),
         EmptyStr)

\* lines 251-253
ResolveUrl(url, item_id) ==
    IF ~Truthy(url) /\ Truthy(item_id)
    THEN PyStr(<<ItemUrlBase>> \o ToStr(item_id))
    ELSE url

\* lines 256-257
PhotoUrl(photo) ==
    IF photo.t = "dict" THEN PyGet(photo.d, "url", EmptyStr)
    ELSE PyStr(ToStr(photo))

\* lines 259-270, given the price (p) and the id resolved
BuildItem(raw, p, item_id) ==
    IF p.raised # "none" THEN p
    ELSE Returned([item_id |-> ToStr(item_id),
                   title |-> PyGet(raw, "title", EmptyStr),
                   price |-> p.value.price,
                   currency |-> p.value.currency,
                   brand |-> PyOr(PyGet(raw, "brand_title", EmptyStr),
                                  PyGet(raw, "brand", EmptyStr)),
                   size |-> PyOr(PyGet(raw, "size_title", EmptyStr),
                                 PyGet(raw, "size", EmptyStr)),
                   url |-> ResolveUrl(PyGet(raw, "url", EmptyStr), item_id),
                   photo_url |-> PhotoUrl(PyGet(raw, "photo", EmptyDict)),
                   is_mock |-> PyGet(raw, "_mock", PyBool(FALSE))])

\* lines 228-270
parse_item(raw) == BuildItem(raw, ParsePrice(raw), ResolveId(raw))

(***************************************************************************)
(* fetch_vinted_items and generate_mock_items                              *)
(*                                                                         *)
(* What the marketplace answers is the record env:                         *)
(*   exc        whether session.get raises (network error, timeout)       *)
(*   status     the status code of the answer when it does not             *)
(*   next_data  the __NEXT_DATA__ script: [m |-> "none"] when the regex    *)
(*              finds none, [m |-> "bad"] when json.loads fails, or        *)
(*              [m |-> "json", items |-> props.pageProps.catalog.items]    *)
(*   preload    the same for each of the three preload patterns, in order  *)
(*   cards      whether either find_all for item-card divs finds any       *)
(*   links      the anchors to /items/<digits>: [id, title, price_text],   *)
(*              price_text <<>> when no text near the link has a price     *)
(*   rand       the amounts random draws for the mock items                *)
(* The result is [ret, log]: the value returned and the steps taken.       *)
(***************************************************************************)
Take(s, n) == SubSeq(s, 1, IF Len(s) < n THEN Len(s) ELSE n)

NoMatch == [m |-> "none"]
BadJson == [m |-> "bad"]
Json(items) == [m |-> "json", items |-> items]

\* a pattern's items: the empty list unless it matched and decoded
Yield(o) == IF o.m = "json" THEN o.items ELSE <<>>

FetchDict(items, source, is_mock, blocked_reason) ==
    [kind |-> "dict", items |-> items, source |-> source,
     is_mock |-> is_mock, blocked_reason |-> blocked_reason]

FetchList(items) == [kind |-> "list", items |-> items]

\* lines 196-225; the md5 digest of "<search_text>_<i>_<hour>" is modelled
\* by that text itself, so that equal inputs and only they give equal ids.
\* rand[k] is the amount drawn for item k; of the brand and the size drawn,
\* which nothing computes with, the model keeps the first of each list.
MockId(search_text, i, h) ==
    <<"m", "o", "c", "k", "_">> \o search_text \o <<"_">> \o NatToStr(i)
        \o <<"_">> \o NatToStr(h)

generate_mock_items(search_text, count, h, rand) ==
    [k \in 1..count |->
        [id |-> PyStr(MockId(search_text, k - 1, h)),
         title |-> PyStr((IF search_text # <<>> THEN search_text
                          ELSE <<"I", "t", "e", "m">>)
                         \o <<" - Sample #">> \o NatToStr(k)),
         price |-> PyDict([amount |-> PyNum(100 * rand[k]),
                           currency_code |-> EUR]),
         brand_title |-> PyStr(<<"Nike">>),
         size_title |-> PyStr(<<"S">>),
         url |-> PyStr(<<ItemUrlBase>> \o MockId(search_text, k - 1, h)),
         photo |-> PyDict([url |-> EmptyStr]),
         _mock |-> PyBool(TRUE)]]

\* lines 160-180: one dict per anchor among the first per_page
LinkItems(links, per_page) ==
    LET ls == Take(links, per_page)
    IN  [k \in 1..Len(ls) |->
            [id |-> PyStr(ls[k].id),
             title |-> PyStr(ls[k].title),
             price |-> PyStr(IF ls[k].price_text # <<>> THEN ls[k].price_text
                             ELSE <<"0">>),
             url |-> PyStr(<<ItemUrlBase>> \o ls[k].id)]]

\* lines 132-146: the index of the first preload pattern that decodes to a
\* non-empty list, 0 when none does
FirstPreload(preload) ==
    IF \E k \in 1..Len(preload) : Yield(preload[k]) # <<>>
    THEN CHOOSE k \in 1..Len(preload) :
            /\ Yield(preload[k]) # <<>>
            /\ \A j \in 1..(k - 1) : Yield(preload[j]) = <<>>
    ELSE 0

PreloadLog(n) == [k \in 1..n |-> "preload"]

BlockedExtract == "Could not extract items - Vinted structure changed or blocked"
BlockedRequest == "Request failed"

\* lines 148-188: BeautifulSoup over the markup, then the mock
ScrapeMarkup(search_text, per_page, h, env) ==
    LET items == IF env.cards THEN <<>> ELSE LinkItems(env.links, per_page)
        steps == IF env.cards THEN <<"cards">> ELSE <<"cards", "links">>
    IN  IF items # <<>>
        THEN [ret |-> FetchDict(Take(items, per_page), "live", FALSE, "null"),
              log |-> steps]
        ELSE [ret |-> FetchDict(
                        generate_mock_items(search_text, per_page, h, env.rand),
                        "mock", TRUE, BlockedExtract),
              log |-> steps \o <<"mock">>]

\* lines 93-193
fetch_vinted_items(search_text, per_page, h, env) ==
    LET head == <<"sleep", "get_catalog">>
        p == FirstPreload(env.preload)
        rest == ScrapeMarkup(search_text, per_page, h, env)
    IN  CASE env.exc ->
                [ret |-> FetchDict(
                            generate_mock_items(search_text, per_page, h,
                                                env.rand),
                            "mock", TRUE, BlockedRequest),
                 log |-> head \o <<"mock">>]
          [] ~env.exc /\ env.status # 200 ->
                [ret |-> FetchList(<<>>), log |-> head]
          [] OTHER ->
                IF Yield(env.next_data) # <<>>
                THEN [ret |-> FetchList(Take(env.next_data.items, per_page)),
                      log |-> head \o <<"next_data">>]
                ELSE IF p # 0
                THEN [ret |-> FetchDict(Take(Yield(env.preload[p]), per_page),
                                        "live", FALSE, "null"),
                      log |-> head \o <<"next_data">> \o PreloadLog(p)]
                ELSE [ret |-> rest.ret,
                      log |-> head \o <<"next_data">>
                              \o PreloadLog(Len(env.preload)) \o rest.log]

(***************************************************************************)
(* The collections                                                         *)
(*                                                                         *)
(* A uuid4 token is modelled by its rank among the tokens drawn for its    *)
(* collection: a fresh token differs from every token of the collection.   *)
(* A query document keeps its id and, of query_json, the search text (the  *)
(* other filters only shape the request url); item and stats documents     *)
(* leave out created_at and raw_json, which no endpoint computes with.     *)
(***************************************************************************)
QueryIds(queries) == {queries[i].id : i \in 1..Len(queries)}

\* vinted_queries.find_one({"id": query_id}): the document, given one exists
FindQuery(queries, query_id) ==
    queries[CHOOSE i \in 1..Len(queries) :
                /\ queries[i].id = query_id
                /\ \A j \in 1..(i - 1) : queries[j].id # query_id]

\* the lookup by "id", the document's own uuid4 text, in place of "item_id"
FindOneItemById(items, query_id, item_id) ==
    \E i \in 1..Len(items) :
        /\ items[i].query_id = query_id
        /\ <<"uuid4-">> \o NatToStr(items[i].id) = item_id

\* vinted_items.find_one({"query_id": ..., "item_id": ...}) is not None

FindOneItem(items, query_id, item_id) ==
    \E i \in 1..Len(items) :
        items[i].query_id = query_id /\ items[i].item_id = item_id

\* lines 160-172: the document stored for a parsed item
ItemDoc(id, query_id, parsed) ==
    [id |-> id,
     query_id |-> query_id,
     item_id |-> parsed.item_id,
     title |-> parsed.title,
     price |-> parsed.price,
     currency |-> parsed.currency,
     brand |-> parsed.brand,
     size |-> parsed.size,
     url |-> parsed.url]

\* lines 151-174: the existence check, then the count or the insert.  acc
\* carries the collection, the two counts and the exception that ended the
\* loop; p is what parse_item gave.
DedupeBlind(acc, p, query_id) ==
    IF acc.raised # "none" THEN acc
    ELSE IF p.raised # "none" THEN [acc EXCEPT !.raised = p.raised]
    ELSE [acc EXCEPT !.items = Append(@, ItemDoc(Len(acc.items) + 1,
                                                 query_id, p.value)),
                     !.items_new = @ + 1]

Dedupe(acc, p, query_id) ==
    IF acc.raised # "none" THEN acc
    ELSE IF p.raised # "none" THEN [acc EXCEPT !.raised = p.raised]
    ELSE IF FindOneItem(acc.items, query_id, p.value.item_id)
    THEN [acc EXCEPT !.items_existing = @ + 1]
    ELSE [acc EXCEPT !.items = Append(@, ItemDoc(Len(acc.items) + 1,
                                                 query_id, p.value)),
                     !.items_new = @ + 1]

\* lines 149-174: one turn of the loop
IngestOne(acc, raw, query_id) == Dedupe(acc, parse_item(raw), query_id)

\* lines 144-174: the loop over raw_items
RECURSIVE Ingest(_, _, _)
Ingest(acc, raw_items, query_id) ==
    IF raw_items = <<>> THEN acc
    ELSE Ingest(IngestOne(acc, Head(raw_items), query_id),
                Tail(raw_items), query_id)

(***************************************************************************)
(* Statistics                                                              *)
(***************************************************************************)
RECURSIVE Sum(_)
Sum(s) == IF s = <<>> THEN 0 ELSE Head(s) + Sum(Tail(s))

RECURSIVE Insert(_, _)
Insert(x, s) ==
    IF s = <<>> THEN <<x>>
    ELSE IF x <= Head(s) THEN <<x>> \o s
    ELSE <<Head(s)>> \o Insert(x, Tail(s))

RECURSIVE Sorted(_)
Sorted(s) == IF s = <<>> THEN s ELSE Insert(Head(s), Sorted(Tail(s)))

\* round(num / den, 2) in cents for num >= 0: to the nearest cent, a tie to
\* the even cent.  The prices of the model are multiples of half a unit, so
\* that a tie is a multiple of 1/8 and the float division is exact on it.
RoundCents(num, den) ==
    LET q == num \div den
        r == num % den
    IN  IF 2 * r < den THEN q
        ELSE IF 2 * r > den THEN q + 1
        ELSE IF q % 2 = 0 THEN q ELSE q + 1

\* line 211: the prices of the query's items that are > 0, in stored order
RECURSIVE AllPrices(_, _)
AllPrices(items, query_id) ==
    IF items = <<>> THEN <<>>
    ELSE (IF Head(items).query_id = query_id
          THEN <<Head(items).price>> ELSE <<>>)
         \o AllPrices(Tail(items), query_id)

RECURSIVE QualifyingPrices(_, _)
QualifyingPrices(items, query_id) ==
    IF items = <<>> THEN <<>>
    ELSE (IF Head(items).query_id = query_id /\ Head(items).price > 0
          THEN <<Head(items).price>> ELSE <<>>)
         \o QualifyingPrices(Tail(items), query_id)

\* statistics.median, as the pair (numerator, denominator)
MedianFraction(prices) ==
    LET s == Sorted(prices)
        n == Len(s)
    IN  IF n % 2 = 1 THEN <<s[(n + 1) \div 2], 1>>
        ELSE <<s[n \div 2] + s[(n \div 2) + 1], 2>>

\* statistics.median rounded, line 219
RoundedMedian(m) == RoundCents(m[1], m[2])

\* lines 213-219, given the qualifying prices
StatsOfPrices(prices) ==
    IF prices # <<>>
    THEN [avg_price |-> PyNum(RoundCents(Sum(prices), Len(prices))),
          median_price |-> PyNum(RoundedMedian(MedianFraction(prices))),
          item_count |-> Len(prices)]
    ELSE [avg_price |-> PyNone, median_price |-> PyNone, item_count |-> 0]

\* lines 211-219
StatsOf(items, query_id) == StatsOfPrices(QualifyingPrices(items, query_id))

\* update_one({"query_id": ..., "day": ...}, {"$set": doc}, upsert=True): the
\* first matching document takes the fields of doc, or doc is inserted
UpsertAppend(stats, doc) == Append(stats, doc)

Upsert(stats, doc) ==
    LET hit == {i \in 1..Len(stats) :
                    stats[i].query_id = doc.query_id /\ stats[i].day = doc.day}
    IN  IF hit = {} THEN Append(stats, doc)
        ELSE LET first == CHOOSE i \in hit : \A j \in hit : i <= j
             IN  [stats EXCEPT ![first] = doc]

(***************************************************************************)
(* Bounds and inputs                                                       *)
(***************************************************************************)
MaxItems == 3       \* documents in vinted_items
MaxStats == 2       \* compute_stats runs that reach the upsert
MaxHour == 1        \* clock hours that pass in a run
MaxLen == 2         \* length of a list of items a page carries
PerPage == 2        \* stands for the per_page=20 of fetch_for_query
MaxQueries == 2     \* saved queries created in a run
MaxCalls == 2       \* fetch_for_query calls in flight at once

SearchTexts == {<<>>, <<"n", "i", "k", "e">>}
MockAmounts == {10, 15}

\* every sequence over S of length at most n
RECURSIVE SeqsUpTo(_, _)
SeqsUpTo(S, n) ==
    IF n = 0 THEN {<<>>}
    ELSE LET shorter == SeqsUpTo(S, n - 1)
         IN  shorter \cup {Append(s, x) : s \in {t \in shorter : Len(t) = n - 1},
                                          x \in S}

SeqsOfLen(S, n) == {s \in SeqsUpTo(S, n) : Len(s) = n}

Euro == "EURO_SIGN"
Price_10_dict == PyDict([amount |-> PyStr(<<"1", "0">>),
                         currency_code |-> PyStr(<<"U", "S", "D">>)])
Price_15_text == PyStr(<<"1", "5", ",", "0", "0", " ", Euro>>)
Price_minus5 == PyNum(-500)
Price_thousands == PyStr(<<"1", ".", "2", "3", "4", ",", "5", "6", " ", Euro>>)

\* the raw items the ingest is run on: no id and no price; the id a number
\* and the price a text; the same id as text and the price negative; a
\* price text float() rejects
RouteItems ==
    {<<>>,
     [id |-> PyNum(1), price |-> Price_15_text],
     [id |-> PyStr(<<"1">>), price |-> Price_minus5],
     [id |-> PyNum(1), price |-> Price_thousands]}
RouteLists == SeqsUpTo(RouteItems, MaxLen)

Env(exc, status, next_data, preload, cards, links, rand) ==
    [exc |-> exc, status |-> status, next_data |-> next_data,
     preload |-> preload, cards |-> cards, links |-> links, rand |-> rand]

NoPreload == <<NoMatch, NoMatch, NoMatch>>
Rands == SeqsOfLen(MockAmounts, PerPage)
NoRand == [k \in 1..PerPage |-> 10]
OneLink == <<[id |-> <<"1">>, title |-> <<"t">>,
              price_text |-> <<"1", "5", ",", "0", "0", " ", Euro>>]>>

\* a page whose only items are the list l under the "items": [...] pattern
ListPage(l) ==
    Env(FALSE, 200, NoMatch, <<NoMatch, NoMatch, Json(l)>>, FALSE, <<>>,
        NoRand)

\* what the marketplace answers while the ingest is checked
RouteEnvs ==
    {Env(TRUE, 0, NoMatch, NoPreload, FALSE, <<>>, r) : r \in Rands}
    \cup {Env(FALSE, 200, NoMatch, NoPreload, FALSE, <<>>, r) : r \in Rands}
    \cup {Env(FALSE, st, NoMatch, NoPreload, FALSE, <<>>, NoRand) :
            st \in {403, 500}}
    \cup {ListPage(l) : l \in RouteLists \ {<<>>}}
    \cup {Env(FALSE, 200, Json(l), NoPreload, FALSE, <<>>, NoRand) :
            l \in SeqsOfLen(RouteItems, 1)}
    \cup {Env(FALSE, 200, NoMatch, NoPreload, c, OneLink, NoRand) :
            c \in BOOLEAN}

\* what it answers while all the endpoints are checked together: a network
\* error (mock amounts 10, 15, 15, ...), a 403, and a page with one item
StatsRand == [k \in 1..PerPage |-> IF k = 1 THEN 10 ELSE 15]
StatsItems == RouteItems \ {[id |-> PyNum(1), price |-> Price_thousands]}
StatsEnvs ==
    {Env(TRUE, 0, NoMatch, NoPreload, FALSE, <<>>, StatsRand),
     Env(FALSE, 403, NoMatch, NoPreload, FALSE, <<>>, NoRand)}
    \cup {ListPage(<<i>>) : i \in StatsItems}

(***************************************************************************)
(* The endpoints                                                           *)
(***************************************************************************)
Init ==
    /\ db = "None"
    /\ vinted_queries = <<>>
    /\ vinted_items = <<>>
    /\ vinted_stats_daily = <<>>
    /\ stats_uuid = 0
    /\ hour = 0
    /\ day = 0
    /\ req = [op |-> "none"]
    /\ resp = [op |-> "none"]

HttpError(op, status) == [op |-> op, status |-> status]

\* set_db, called once by server.py
SetDb ==
    /\ db = "None"
    /\ db' = "set"
    /\ req' = [op |-> "set_db"]
    /\ resp' = [op |-> "set_db"]
    /\ UNCHANGED <<vinted_queries, vinted_items, vinted_stats_daily,
                   stats_uuid,                    hour, day>>

\* the clock passes an hour boundary, and with it perhaps midnight UTC
Tick ==
    /\ hour < MaxHour
    /\ hour' = hour + 1
    /\ day' \in {day, day + 1}
    /\ UNCHANGED <<db, vinted_queries, vinted_items, vinted_stats_daily,
                   stats_uuid,                    req, resp>>

\* POST /queries, lines 66-99
create_query(search_text) ==
    /\ Len(vinted_queries) < MaxQueries
    /\ req' = [op |-> "create_query", search_text |-> search_text]
    /\ IF db = "None"
       THEN /\ resp' = HttpError("create_query", 500)
            /\ UNCHANGED <<vinted_queries>>
       ELSE /\ vinted_queries' = Append(vinted_queries,
                                        [id |-> Len(vinted_queries) + 1,
                                         search_text |-> search_text])
            /\ resp' = [op |-> "create_query", status |-> 200,
                        id |-> Len(vinted_queries) + 1]
    /\ UNCHANGED <<db, vinted_items, vinted_stats_daily, stats_uuid, hour,
                   day>>

\* lines 176-186: the FetchResult, or the exception that left the loop
FetchResponse(query_id, fetch_result, end) ==
    IF end.raised # "none"
    THEN [op |-> "fetch", status |-> 500, raised |-> end.raised]
    ELSE [op |-> "fetch", status |-> 200,
          query_id |-> query_id,
          items_fetched |-> Len(fetch_result.items),
          items_new |-> end.items_new,
          items_existing |-> end.items_existing,
          source |-> fetch_result.source,
          is_mock |-> fetch_result.is_mock,
          blocked_reason |-> fetch_result.blocked_reason]

\* lines 144-186: the collection and the response after the loop
StoreIngested(query_id, fetch_result, end) ==
    /\ Len(end.items) <= MaxItems
    /\ vinted_items' = end.items
    /\ resp' = FetchResponse(query_id, fetch_result, end)

\* whether this fetch repeats the last call: that call was a fetch for the
\* same query, and its loop ran over the same raw items
Repeats(query_id, raw_items) ==
    /\ req.op = "fetch"
    /\ "raw_items" \in DOMAIN req
    /\ req.query_id = query_id
    /\ req.raw_items = raw_items

\* lines 139-186, given what fetch_vinted_items returned
IngestFetched(query_id, env, fetch_result) ==
    IF fetch_result.kind # "dict"
    THEN \* line 139: a list takes no string index
         /\ req' = [op |-> "fetch", query_id |-> query_id, env |-> env]
         /\ resp' = [op |-> "fetch", status |-> 500, raised |-> "TypeError"]
         /\ UNCHANGED vinted_items
    ELSE /\ req' = [op |-> "fetch", query_id |-> query_id, env |-> env,
                    raw_items |-> fetch_result.items,
                    again |-> Repeats(query_id, fetch_result.items)]
         /\ StoreIngested(query_id, fetch_result,
                          Ingest([items |-> vinted_items, items_new |-> 0,
                                  items_existing |-> 0, raised |-> "none"],
                                 fetch_result.items, query_id))

\* POST /queries/{query_id}/fetch, lines 112-186; the marketplace answers
\* (env) only when the query is found and the request goes out
fetch_for_query(query_id, envs) ==
    /\ IF db = "None"
       THEN /\ req' = [op |-> "fetch", query_id |-> query_id]
            /\ resp' = HttpError("fetch", 500)
            /\ UNCHANGED vinted_items
       ELSE IF query_id \notin QueryIds(vinted_queries)
       THEN /\ req' = [op |-> "fetch", query_id |-> query_id]
            /\ resp' = HttpError("fetch", 404)
            /\ UNCHANGED vinted_items
       ELSE \E env \in envs :
            IngestFetched(
                query_id, env,
                fetch_vinted_items(
                    FindQuery(vinted_queries, query_id).search_text,
                    PerPage, hour, env).ret)
    /\ UNCHANGED <<db, vinted_queries, vinted_stats_daily, stats_uuid, hour,
                   day>>

\* lines 221-247: the upsert and the StatsResponse, given the statistics
StoreStats(query_id, st) ==
    /\ stats_uuid < MaxStats
    /\ vinted_stats_daily' =
         Upsert(vinted_stats_daily,
                [id |-> stats_uuid + 1, query_id |-> query_id, day |-> day,
                 avg_price |-> st.avg_price,
                 median_price |-> st.median_price,
                 item_count |-> st.item_count])
    /\ stats_uuid' = stats_uuid + 1
    /\ resp' = [op |-> "stats", status |-> 200,
                query_id |-> query_id, day |-> day,
                avg_price |-> st.avg_price,
                median_price |-> st.median_price,
                item_count |-> st.item_count]

\* POST /queries/{query_id}/stats, lines 189-247
compute_stats(query_id) ==
    /\ req' = [op |-> "stats", query_id |-> query_id]
    /\ IF db = "None"
       THEN /\ resp' = HttpError("stats", 500)
            /\ UNCHANGED <<vinted_stats_daily, stats_uuid>>
       ELSE IF query_id \notin QueryIds(vinted_queries)
       THEN /\ resp' = HttpError("stats", 404)
            /\ UNCHANGED <<vinted_stats_daily, stats_uuid>>
       ELSE StoreStats(query_id, StatsOf(vinted_items, query_id))
    /\ UNCHANGED <<db, vinted_queries, vinted_items, hour, day>>

\* GET /queries/{query_id}/items, lines 264-275
get_items(query_id, limit) ==
    LET mine == {i \in 1..Len(vinted_items) :
                    vinted_items[i].query_id = query_id}
        n == Cardinality(mine)
    IN  /\ req' = [op |-> "items", query_id |-> query_id, limit |-> limit]
        /\ resp' = IF db = "None" THEN HttpError("items", 500)
                   ELSE [op |-> "items", status |-> 200,
                         query_id |-> query_id,
                         count |-> IF n < limit THEN n ELSE limit]
        /\ UNCHANGED <<db, vinted_queries, vinted_items, vinted_stats_daily,
                       stats_uuid, hour, day>>

\* the ids a caller may put in the path: every token drawn, and one more
PathIds == 1..(MaxQueries + 1)
DefaultLimit == 50

RouteSearchTexts == {<<"n", "i", "k", "e">>}

CreateQuery == \E st \in RouteSearchTexts : create_query(st)

FetchForQuery ==
    /\ db \in {"None", "set"}
    /\ \E q \in PathIds : fetch_for_query(q, StatsEnvs)

ComputeStats ==
    /\ db \in {"None", "set"}
    /\ \E q \in PathIds : compute_stats(q)

GetItems ==
    /\ db \in {"None", "set"}
    /\ \E q \in PathIds : get_items(q, DefaultLimit)

Next ==
    \/ SetDb
    \/ Tick
    \/ CreateQuery
    \/ FetchForQuery
    \/ ComputeStats
    \/ GetItems

Spec == Init /\ [][Next]_vars

\* the ingest alone, on every answer of RouteEnvs
FetchAny ==
    /\ db \in {"None", "set"}
    /\ \E q \in PathIds : fetch_for_query(q, RouteEnvs)

NextIngest ==
    \/ SetDb
    \/ CreateQuery
    \/ FetchAny

SpecIngest == Init /\ [][NextIngest]_vars

(***************************************************************************)
(* parse_item on its own, over raw items of every shape                    *)
(***************************************************************************)
Text_abc == <<"a", "b", "c">>
ParseIdParts ==
    {<<>>, [id |-> PyNum(1)], [id |-> PyStr(<<"1">>)], [id |-> PyNone],
     [id |-> PyStr(<<>>)], [item_id |-> PyNum(7)],
     [id |-> PyNum(0), item_id |-> PyStr(<<"a">>)]}

ParsePrices ==
    {PyNone, PyNum(0), PyNum(2050), Price_minus5,
     Price_10_dict,
     EmptyDict,
     PyDict([amount |-> PyNum(1000)]),
     PyDict([amount |-> PyStr(<<"1", "5", ".", "5">>),
             currency_code |-> PyStr(<<"U", "S", "D">>)]),
     PyDict([amount |-> PyNone, currency_code |-> EUR]),
     PyDict([amount |-> PyStr(Text_abc), currency_code |-> EUR]),
     PyDict([amount |-> PyStr(<<"-", "5">>), currency_code |-> EUR]),
     PyDict([amount |-> PyStr(<<" ", "1", "2", " ">>)]),
     Price_15_text,
     PyStr(<<Euro, "1", "5", ".", "0", "0">>),
     PyStr(<<>>),
     PyStr(Text_abc),
     PyStr(<<",">>),
     PyStr(<<"-", "5", " ", Euro>>),
     PyStr(<<"1", "2">>),
     Price_thousands}

ParsePriceParts == {<<>>} \cup {[price |-> v] : v \in ParsePrices}
ParseUrlParts == {<<>>, [url |-> PyStr(<<"u">>)]}
ParsePhotoParts ==
    {<<>>, [photo |-> PyDict([url |-> PyStr(<<"p">>)])], [photo |-> PyNone]}
ParseTitleParts == {<<>>, [title |-> PyStr(<<"t">>)]}
ParseBrandParts ==
    {<<>>, [brand |-> PyStr(<<"b">>)],
     [brand_title |-> PyStr(<<"B">>), brand |-> PyStr(<<"b">>),
      size_title |-> PyStr(<<"S">>), _mock |-> PyBool(TRUE)]}

ParseItems ==
    {i @@ pr @@ u @@ ph @@ t @@ b :
        i \in ParseIdParts, pr \in ParsePriceParts, u \in ParseUrlParts,
        ph \in ParsePhotoParts, t \in ParseTitleParts, b \in ParseBrandParts}

Idle ==
    /\ db = "None"
    /\ vinted_queries = <<>>
    /\ vinted_items = <<>>
    /\ vinted_stats_daily = <<>>
    /\ stats_uuid = 0
    /\ hour = 0
    /\ day = 0

InitParse ==
    /\ Idle
    /\ req \in {[op |-> "parse_item", raw |-> r] : r \in ParseItems}
    /\ resp = [op |-> "none"]

ParseItemCall ==
    /\ req.op = "parse_item"
    /\ resp.op = "none"
    /\ resp' = [op |-> "parse_item", out |-> parse_item(req.raw)]
    /\ UNCHANGED <<db, vinted_queries, vinted_items, vinted_stats_daily,
                   stats_uuid, hour, day, req>>

SpecParse == InitParse /\ [][ParseItemCall]_vars

(***************************************************************************)
(* fetch_vinted_items on its own, over every answer of the marketplace     *)
(***************************************************************************)
\* the list a pattern decodes to carries the pattern's mark in its ids
PatternList(mark) ==
    <<[id |-> PyStr(<<mark, "1">>), price |-> Price_15_text],
      [id |-> PyStr(<<mark, "2">>), price |-> Price_10_dict]>>

Outcomes(mark) == {NoMatch, BadJson, Json(<<>>), Json(PatternList(mark))}

\* the third preload pattern matches "items": [{...}] only, which decodes
\* to a list that is not empty
ListOutcomes(mark) == Outcomes(mark) \ {Json(<<>>)}

TwoLinks ==
    <<[id |-> <<"7">>, title |-> <<"t">>,
       price_text |-> <<"1", "5", ",", "0", "0", " ", Euro>>],
      [id |-> <<"8">>, title |-> <<>>, price_text |-> <<>>]>>

Pages ==
    {Env(FALSE, 200, n, <<p1, p2, p3>>, c, l, NoRand) :
        n \in Outcomes("n"), p1 \in Outcomes("p"), p2 \in Outcomes("q"),
        p3 \in ListOutcomes("r"), c \in BOOLEAN,
        l \in {<<>>, OneLink, TwoLinks}}

FetchEnvs ==
    Pages
    \cup {Env(TRUE, 0, NoMatch, NoPreload, FALSE, <<>>, NoRand)}
    \cup {Env(FALSE, st, NoMatch, NoPreload, FALSE, OneLink, NoRand) :
            st \in {401, 403, 404, 500}}

InitFetch ==
    /\ Idle
    /\ req \in {[op |-> "fetch_vinted_items", search_text |-> st,
                 per_page |-> n, env |-> e] :
                    st \in SearchTexts, n \in 1..PerPage, e \in FetchEnvs}
    /\ resp = [op |-> "none"]

FetchVintedItemsCall ==
    /\ req.op = "fetch_vinted_items"
    /\ resp.op = "none"
    /\ resp' = [op |-> "fetch_vinted_items",
                out |-> fetch_vinted_items(req.search_text, req.per_page,
                                           hour, req.env)]
    /\ UNCHANGED <<db, vinted_queries, vinted_items, vinted_stats_daily,
                   stats_uuid, hour, day, req>>

SpecFetch == InitFetch /\ [][FetchVintedItemsCall]_vars

(***************************************************************************)
(* fetch_for_query calls in flight at once                                 *)
(*                                                                         *)
(* The event loop switches between the coroutines at their awaits only:    *)
(* a call runs from one storage await to the next in one step.  Here req   *)
(* holds one record per call, and resp the response of each:               *)
(*   pc        "start", "find_one" (the lookup of item k is to run),       *)
(*             "insert_one" (it missed, the insert is to run) or "done"    *)
(*   k         the index in raw_items of the item the loop is at           *)
(*   inserted  the item ids this call inserted                             *)
(***************************************************************************)
Calls == 1..MaxCalls

RaceItems ==
    {[id |-> PyNum(1), price |-> Price_15_text],
     [id |-> PyStr(<<"2">>), price |-> Price_10_dict]}
RaceLists == SeqsUpTo(RaceItems, MaxLen) \ {<<>>}

\* what the marketplace answers to the calls in flight: a network error, a
\* 403, and a page with the items of a list
RaceEnvs ==
    {Env(TRUE, 0, NoMatch, NoPreload, FALSE, <<>>, StatsRand),
     Env(FALSE, 403, NoMatch, NoPreload, FALSE, <<>>, NoRand)}
    \cup {ListPage(l) : l \in RaceLists}

\* the saved queries before the calls: create_query ran n times
QueriesCreated(n) ==
    [i \in 1..n |-> [id |-> i, search_text |-> <<"n", "i", "k", "e">>]]

InitRace ==
    /\ db = "set"
    /\ vinted_queries \in {QueriesCreated(n) : n \in 1..MaxQueries}
    /\ vinted_items = <<>>
    /\ vinted_stats_daily = <<>>
    /\ stats_uuid = 0
    /\ hour = 0
    /\ day = 0
    /\ req \in [Calls -> {[op |-> "fetch", pc |-> "start", query_id |-> q] :
                            q \in PathIds}]
    /\ resp = [c \in Calls |-> [op |-> "none"]]

\* call c ends with the response r
Finish(c, call, r) ==
    /\ req' = [req EXCEPT ![c] = [call EXCEPT !.pc = "done"]]
    /\ resp' = [resp EXCEPT ![c] = r]

\* lines 148 and 176-186: the loop goes to its next item, or the call returns
Advance(c, call) ==
    IF call.k > Len(call.fetch_result.items)
    THEN Finish(c, call,
                FetchResponse(call.query_id, call.fetch_result, call))
    ELSE /\ req' = [req EXCEPT ![c] = [call EXCEPT !.pc = "find_one"]]
         /\ UNCHANGED resp

\* lines 139-148, given what fetch_vinted_items returned
BeginLoop(c, fetch_result) ==
    IF fetch_result.kind # "dict"
    THEN Finish(c, req[c],
                [op |-> "fetch", status |-> 500, raised |-> "TypeError"])
    ELSE Advance(c, [op |-> "fetch", pc |-> "start",
                     query_id |-> req[c].query_id,
                     fetch_result |-> fetch_result, k |-> 1,
                     items_new |-> 0, items_existing |-> 0,
                     raised |-> "none", inserted |-> {}])

\* lines 118-148: the lookup of the query and the fetch, which does not await
Begin(c) ==
    /\ req[c].pc = "start"
    /\ IF req[c].query_id \notin QueryIds(vinted_queries)
       THEN Finish(c, req[c], HttpError("fetch", 404))
       ELSE \E env \in RaceEnvs :
            BeginLoop(c,
                      fetch_vinted_items(
                          FindQuery(vinted_queries,
                                    req[c].query_id).search_text,
                          PerPage, hour, env).ret)
    /\ UNCHANGED <<db, vinted_queries, vinted_items, vinted_stats_daily,
                   stats_uuid, hour, day>>

\* lines 149-158, given what parse_item gave for item k: find_one runs on
\* the collection as it is now
Lookup(c, p) ==
    IF p.raised # "none"
    THEN Finish(c, req[c],
                [op |-> "fetch", status |-> 500, raised |-> p.raised])
    ELSE IF FindOneItem(vinted_items, req[c].query_id, p.value.item_id)
    THEN Advance(c, [req[c] EXCEPT !.items_existing = @ + 1, !.k = @ + 1])
    ELSE /\ req' = [req EXCEPT ![c].pc = "insert_one"]
         /\ UNCHANGED resp

FindOneStep(c) ==
    /\ req[c].pc = "find_one"
    /\ Lookup(c, parse_item(req[c].fetch_result.items[req[c].k]))
    /\ UNCHANGED <<db, vinted_queries, vinted_items, vinted_stats_daily,
                   stats_uuid, hour, day>>

\* an insert the collection refuses when the pair is stored already
InsertOneUnique(items, doc) ==
    IF FindOneItem(items, doc.query_id, doc.item_id) THEN items
    ELSE Append(items, doc)

\* vinted_items.insert_one(doc)
InsertOne(items, doc) == Append(items, doc)

\* lines 160-174, given what parse_item gave for item k: insert_one runs on
\* the collection as it is now, whatever find_one saw
Insertion(c, parsed) ==
    /\ vinted_items' =
         InsertOne(vinted_items,
                   ItemDoc(Len(vinted_items) + 1, req[c].query_id, parsed))
    /\ Advance(c, [req[c] EXCEPT !.items_new = @ + 1, !.k = @ + 1,
                                 !.inserted = @ \cup {parsed.item_id}])

InsertOneStep(c) ==
    /\ req[c].pc = "insert_one"
    /\ Insertion(c, parse_item(req[c].fetch_result.items[req[c].k]).value)
    /\ UNCHANGED <<db, vinted_queries, vinted_stats_daily, stats_uuid, hour,
                   day>>

BeginCall == \E c \in Calls : Begin(c)
FindOneAwait == \E c \in Calls : FindOneStep(c)
InsertOneAwait == \E c \in Calls : InsertOneStep(c)

NextRace ==
    \/ BeginCall
    \/ FindOneAwait
    \/ InsertOneAwait

SpecRace == InitRace /\ [][NextRace]_vars

(***************************************************************************)
(* Properties of the ingest                                                *)
(***************************************************************************)
\* the last call was a fetch whose loop ran over raw items
Ingested == req.op = "fetch" /\ "raw_items" \in DOMAIN req

\* the item ids the raw items of the last fetch resolve to
ResolvedIds(raw_items) ==
    {ToStr(ResolveId(raw_items[k])) : k \in 1..Len(raw_items)}

\* C1: after any sequence of fetch_for_query calls run one at a time, for
\* any queries and any raw item lists, no two documents of vinted_items
\* share the same (query_id, item_id) pair.
C1_OneDocumentPerQueryItem ==
    \A i, j \in 1..Len(vinted_items) :
        (/\ vinted_items[i].query_id = vinted_items[j].query_id
         /\ vinted_items[i].item_id = vinted_items[j].item_id) => i = j

\* a fetch over two raw items that resolve to the same id ran to its end:
\* one was inserted and the other counted as existing
C1_Witness ==
    /\ Ingested
    /\ resp.status = 200
    /\ Len(req.raw_items) = 2
    /\ Cardinality(ResolvedIds(req.raw_items)) = 1
    /\ resp.items_new = 1
    /\ resp.items_existing = 1
    /\ \E i \in 1..Len(vinted_items) :
          /\ vinted_items[i].query_id = req.query_id
          /\ vinted_items[i].item_id \in ResolvedIds(req.raw_items)

\* C2, as amended: when the ingest runs twice in a row for the same query
\* with the same raw items, the second run inserts nothing; when it returns
\* a FetchResult so did the first, and the second's items_new is 0 and its
\* items_existing is the first run's items_new plus its items_existing.
C2_SecondRunFindsAllExisting ==
    [][(Ingested' /\ req'.again) =>
           /\ vinted_items' = vinted_items
           /\ resp'.status = 200 =>
                 /\ resp.status = 200
                 /\ resp'.items_new = 0
                 /\ resp'.items_existing =
                        resp.items_new + resp.items_existing]_vars

\* a second run over two raw items of distinct ids returned: nothing new,
\* both existing
C2_Witness ==
    /\ Ingested
    /\ req.again
    /\ resp.status = 200
    /\ Cardinality(ResolvedIds(req.raw_items)) = 2
    /\ resp.items_new = 0
    /\ resp.items_existing = 2

\* C2, as stated: the second of two runs in a row with the same raw items
\* for the same query gives items_new = 0 and items_existing equal to the
\* items_new of the first run.
C2_SecondRunCountsFirstRunsNew ==
    [][(Ingested' /\ req'.again /\ resp.status = 200) =>
           /\ resp'.status = 200
           /\ resp'.items_new = 0
           /\ resp'.items_existing = resp.items_new]_vars

\* the last fetch went out and the marketplace did not answer 200, or the
\* request raised
LiveRequestFailed ==
    /\ req.op = "fetch"
    /\ "env" \in DOMAIN req
    /\ (req.env.exc \/ req.env.status # 200)

\* C3: whenever the live request fails (a status other than 200, or a
\* network error) and no live strategy yields items, POST
\* /queries/{id}/fetch surfaces no error: it completes with source "mock",
\* is_mock true and a blocked_reason that is not null.
C3_LiveFailureFallsBackToMock ==
    LiveRequestFailed =>
        /\ resp.status = 200
        /\ resp.source = "mock"
        /\ resp.is_mock
        /\ resp.blocked_reason # "null"

\* C9: the price of every stored item is non-negative whatever the shape of
\* the raw price, and every item a completed ingest ran over, a price of 0
\* included, is in the store.
C9_StoredPricesNonNegative ==
    /\ \A i \in 1..Len(vinted_items) : vinted_items[i].price >= 0
    /\ (Ingested /\ resp.status = 200) =>
          \A k \in 1..Len(req.raw_items) :
              \E i \in 1..Len(vinted_items) :
                  /\ vinted_items[i].query_id = req.query_id
                  /\ vinted_items[i].item_id =
                         ToStr(ResolveId(req.raw_items[k]))

(***************************************************************************)
(* Properties of the statistics and of the endpoints                       *)
(***************************************************************************)
\* the last call computed and stored statistics
StatsReturned == resp.op = "stats" /\ resp.status = 200

\* the rows of vinted_stats_daily for a query and a day
RowsOf(query_id, d) ==
    {i \in 1..Len(vinted_stats_daily) :
        /\ vinted_stats_daily[i].query_id = query_id
        /\ vinted_stats_daily[i].day = d}

\* row i holds the values the last compute_stats returned
HoldsResponse(i) ==
    /\ vinted_stats_daily[i].avg_price = resp.avg_price
    /\ vinted_stats_daily[i].median_price = resp.median_price
    /\ vinted_stats_daily[i].item_count = resp.item_count

\* C4: after any sequence of compute_stats and fetch_for_query calls run
\* one at a time, vinted_stats_daily holds at most one row per (query_id,
\* day), and the row of a pair holds the values of the last computation for
\* that pair.
C4_OneRowPerQueryDay ==
    /\ \A i, j \in 1..Len(vinted_stats_daily) :
          (/\ vinted_stats_daily[i].query_id = vinted_stats_daily[j].query_id
           /\ vinted_stats_daily[i].day = vinted_stats_daily[j].day) => i = j
    /\ StatsReturned =>
          /\ Cardinality(RowsOf(resp.query_id, resp.day)) = 1
          /\ \A i \in RowsOf(resp.query_id, resp.day) : HoldsResponse(i)

\* statistics were computed twice for the same query on the same day: the
\* only row carries the token of the second computation and its values
C4_Witness ==
    /\ StatsReturned
    /\ stats_uuid = 2
    /\ Len(vinted_stats_daily) = 1
    /\ vinted_stats_daily[1].id = 2
    /\ vinted_stats_daily[1].query_id = resp.query_id
    /\ vinted_stats_daily[1].day = resp.day
    /\ resp.item_count = 2
    /\ HoldsResponse(1)

\* the stored items of a query, and those of them with a price > 0
StoredOf(query_id) ==
    {i \in 1..Len(vinted_items) : vinted_items[i].query_id = query_id}

KeptOf(query_id) == {i \in StoredOf(query_id) : vinted_items[i].price > 0}

RECURSIVE TotalPrice(_)
TotalPrice(S) ==
    IF S = {} THEN 0
    ELSE LET i == CHOOSE x \in S : TRUE
         IN  vinted_items[i].price + TotalPrice(S \ {i})

\* the k-th smallest price among the items of S
KthPrice(S, k) ==
    CHOOSE v \in {vinted_items[i].price : i \in S} :
        /\ Cardinality({i \in S : vinted_items[i].price < v}) < k
        /\ k <= Cardinality({i \in S : vinted_items[i].price <= v})

\* twice the median of the prices of S, S not empty
TwiceMedian(S) ==
    LET n == Cardinality(S)
    IN  IF n % 2 = 1 THEN 2 * KthPrice(S, (n + 1) \div 2)
        ELSE KthPrice(S, n \div 2) + KthPrice(S, (n \div 2) + 1)

\* v is a Python number of a cents, no farther than half a cent from num/den
NearestCent(v, num, den) ==
    /\ v.t = "num"
    /\ 2 * (v.n * den - num) <= den
    /\ 2 * (num - v.n * den) <= den

\* v is the Python number num/den
ExactlyFraction(v, num, den) == v.t = "num" /\ v.n * den = num

\* the row of today written by the last compute_stats holds what it returned
TodaysRowWritten ==
    \E i \in RowsOf(resp.query_id, resp.day) : HoldsResponse(i)

C6_UnknownQueryNotFound ==
    [][(/\ db = "set"
        /\ req'.op \in {"fetch", "stats", "items"}
        /\ req'.query_id \notin QueryIds(vinted_queries)) =>
           /\ resp'.status = 404
           /\ UNCHANGED <<vinted_queries, vinted_items,
                          vinted_stats_daily>>]_vars

(***************************************************************************)
(* Properties of fetch_vinted_items and parse_item                         *)
(***************************************************************************)
\* fetch_vinted_items was called and came back
Fetched == resp.op = "fetch_vinted_items"

\* the steps of the last fetch_vinted_items
Has(step) == \E i \in 1..Len(resp.out.log) : resp.out.log[i] = step

Before(a, b) ==
    \A i, j \in 1..Len(resp.out.log) :
        (resp.out.log[i] = a /\ resp.out.log[j] = b) => i < j

ScrapeSteps == {"next_data", "preload", "cards", "links"}

\* C7: the strategies are attempted in the order direct query, session
\* retry, scrape, mock.  A 401 or 403 answer to the catalog query is
\* followed by a visit of the front page and a reissued query before any
\* scrape or mock, and mock items are generated only after the direct
\* query, the session retry and the scrape were attempted.
C7_StrategiesInOrder ==
    Fetched =>
        /\ Has("get_catalog")
        /\ (~req.env.exc /\ req.env.status \in {401, 403}) =>
              /\ Has("front_page")
              /\ Has("retry_catalog")
              /\ Before("get_catalog", "front_page")
              /\ Before("front_page", "retry_catalog")
        /\ \A step \in ScrapeSteps \cup {"mock"} :
              /\ Before("get_catalog", step)
              /\ Before("retry_catalog", step)
        /\ \A step \in ScrapeSteps : Before(step, "mock")
        /\ Has("mock") =>
              /\ Has("retry_catalog")
              /\ \E step \in ScrapeSteps : Has(step)

\* the result is a live record of the items given
LiveRecord(items) ==
    /\ resp.out.ret.kind = "dict"
    /\ resp.out.ret.items = items
    /\ resp.out.ret.source = "live"
    /\ resp.out.ret.is_mock = FALSE
    /\ resp.out.ret.blocked_reason = "null"

\* C10: the scrape tries __NEXT_DATA__, the inline-script patterns, the
\* item cards and the item links in this order; the first that yields items
\* makes the fetch return a record with source "live", is_mock false,
\* blocked_reason null and at most per_page items, and no later pattern and
\* no mock generation runs, whichever pattern it is.
C10_FirstYieldingPatternWins ==
    (Fetched /\ ~req.env.exc /\ req.env.status = 200) =>
        LET e == req.env
            p == FirstPreload(e.preload)
        IN  IF Yield(e.next_data) # <<>>
            THEN /\ LiveRecord(Take(Yield(e.next_data), req.per_page))
                 /\ \A step \in {"preload", "cards", "links", "mock"} :
                       ~Has(step)
            ELSE IF p # 0
            THEN /\ LiveRecord(Take(Yield(e.preload[p]), req.per_page))
                 /\ \A step \in {"cards", "links", "mock"} : ~Has(step)
            ELSE IF e.cards
            THEN /\ resp.out.ret.kind = "dict"
                 /\ resp.out.ret.items # <<>>
                 /\ LiveRecord(Take(resp.out.ret.items, req.per_page))
                 /\ \A step \in {"links", "mock"} : ~Has(step)
            ELSE IF e.links # <<>>
            THEN /\ resp.out.ret.kind = "dict"
                 /\ Len(resp.out.ret.items) =
                        Len(Take(e.links, req.per_page))
                 /\ LiveRecord(resp.out.ret.items)
                 /\ ~Has("mock")
            ELSE TRUE

\* C8: parse_item is total: for every raw item, whatever the shape of its
\* price, it returns a normalized item without raising, an absent field
\* defaulted to the empty string or to zero.
C8_ParseItemTotal ==
    resp.op = "parse_item" =>
        /\ resp.out.raised = "none"
        /\ "price" \notin DOMAIN req.raw => resp.out.value.price = 0
        /\ "title" \notin DOMAIN req.raw => resp.out.value.title = EmptyStr
        /\ ({"id", "item_id"} \cap DOMAIN req.raw = {}) =>
              resp.out.value.item_id = <<>>

(***************************************************************************)
(* Properties of calls in flight at once                                   *)
(***************************************************************************)
\* the calls whose loop ran for the query and inserted the item id
InsertersOf(query_id, item_id) ==
    {c \in Calls : /\ "inserted" \in DOMAIN req[c]
                   /\ req[c].query_id = query_id
                   /\ item_id \in req[c].inserted}

\* the documents stored for the pair
DocsOf(query_id, item_id) ==
    {i \in 1..Len(vinted_items) :
        /\ vinted_items[i].query_id = query_id
        /\ vinted_items[i].item_id = item_id}

\* the item ids stored or inserted
KnownIds ==
    {vinted_items[i].item_id : i \in 1..Len(vinted_items)}
    \cup UNION {req[c].inserted :
                   c \in {d \in Calls : "inserted" \in DOMAIN req[d]}}

\* C11: with fetch_for_query calls interleaving between the find_one check
\* and the insert_one, vinted_items comes to hold a pair (query_id, item_id)
\* twice, each call counting the item as new: a pair is stored once per
\* call that counted it new, a call counts an item it inserted once, and
\* nothing refuses the second insert.
C11_OneDocumentPerInsertingCall ==
    /\ \A q \in PathIds : \A id \in KnownIds :
          Cardinality(DocsOf(q, id)) = Cardinality(InsertersOf(q, id))
    /\ \A c \in Calls :
          "inserted" \in DOMAIN req[c] =>
              req[c].items_new = Cardinality(req[c].inserted)

\* two calls for the same query both returned, both counted an item as new,
\* and the pair is stored twice
C11_Witness ==
    \E c, d \in Calls :
        /\ c < d
        /\ resp[c].op = "fetch" /\ resp[c].status = 200
        /\ resp[d].op = "fetch" /\ resp[d].status = 200
        /\ req[c].query_id = req[d].query_id
        /\ resp[c].items_new >= 1
        /\ resp[d].items_new >= 1
        /\ \E id \in req[c].inserted \cap req[d].inserted :
              /\ InsertersOf(req[c].query_id, id) = {c, d}
              /\ Cardinality(DocsOf(req[c].query_id, id)) = 2

====
